---- MODULE Spec2Model ----
\* Task entity of mindstream (shared/task.ts): the todo.txt line codec, the
\* recurrence extension and the Task mutation operations, as a state machine
\* over one Task (the receiver) and the Task last returned by clone()/recur().
\*
\* Strings are TLA+ strings and are scanned character by character, so a line
\* such as "a rec:1d" is the very text the program sees.  A JavaScript value
\* that may be null / undefined is a record [k, v]: k says which it is.
EXTENDS Integers, Sequences, FiniteSets, TLC

VARIABLES
    task,      \* the receiver's todoItem (Undefined before it is constructed)
    result,    \* the todoItem of the Task the last clone()/recur() returned, if any
    op,        \* name of the last method called on the receiver
    ret,       \* what that call returned
    arg,       \* the TaskData / line passed to the last create, update or parse
    base,      \* the receiver's todoItem when the current run of calls to `op` began
               \* (after create, parse and update: the todoItem they left)
    n,         \* number of consecutive calls to `op` in the current run
    born,      \* how the receiver was constructed: "create" or "parse"
    was,       \* after update: which optional fields the receiver held before it
    line,      \* extractor harness: the line handed to the recurrence extractor
    out        \* extractor harness: number of calls made and what the last returned

vars == <<task, result, op, ret, arg, base, n, born, was, line, out>>

-----------------------------------------------------------------------------
\* Bounds of the model

\* a run of the same call on the receiver is followed for at most MaxRun calls
MaxRun == 3
\* postpone() is followed while due is fewer than MaxShift days past an input date
MaxShift == 3
\* the extractor harness builds its lines from at most MaxPieces pieces
MaxPieces == 4

-----------------------------------------------------------------------------
\* JavaScript values

Null      == [k |-> "null", v |-> ""]
Undefined == [k |-> "undefined", v |-> ""]
Some(x)   == [k |-> "val", v |-> x]
\* truthiness of a value that is null, undefined or an object
Truthy(x) == x.k = "val"

-----------------------------------------------------------------------------
\* Characters and numbers

At(s, i)     == IF i >= 1 /\ i <= Len(s) THEN SubSeq(s, i, i) ELSE ""
Sub(s, i, j) == IF i >= 1 /\ j <= Len(s) /\ i <= j THEN SubSeq(s, i, j) ELSE ""
From(s, i)   == IF i <= Len(s) THEN SubSeq(s, IF i < 1 THEN 1 ELSE i, Len(s)) ELSE ""

Digits    == {"0", "1", "2", "3", "4", "5", "6", "7", "8", "9"}
Digit(c)  == CHOOSE d \in 0..9 : ToString(d) = c
AllDigits(s) == \A i \in 1..Len(s) : At(s, i) \in Digits

RECURSIVE parseInt(_)
parseInt(s) ==
    IF s = "" THEN 0
    ELSE 10 * parseInt(SubSeq(s, 1, Len(s) - 1)) + Digit(At(s, Len(s)))

Pad2(k) == IF k < 10 THEN "0" \o ToString(k) ELSE ToString(k)

RECURSIVE trimLeft(_)
trimLeft(s) == IF At(s, 1) = " " THEN trimLeft(From(s, 2)) ELSE s
RECURSIVE trimRight(_)
trimRight(s) ==
    IF At(s, Len(s)) = " " THEN trimRight(Sub(s, 1, Len(s) - 1)) ELSE s
trim(s) == trimRight(trimLeft(s))

-----------------------------------------------------------------------------
\* Calendar dates (a Date is kept to its local calendar day)

IsLeap(y) == (y % 4 = 0 /\ y % 100 # 0) \/ y % 400 = 0
DaysIn(y, m) ==
    IF m = 2 THEN (IF IsLeap(y) THEN 29 ELSE 28)
    ELSE IF m \in {4, 6, 9, 11} THEN 30 ELSE 31

\* new Date(y, m - 1, d): out-of-range months and days carry over
RECURSIVE MkDate(_, _, _)
MkDate(y, m, d) ==
    IF m < 1 THEN MkDate(y - 1, m + 12, d)
    ELSE IF m > 12 THEN MkDate(y + 1, m - 12, d)
    ELSE IF d < 1 THEN
        IF m = 1 THEN MkDate(y - 1, 12, d + 31)
        ELSE MkDate(y, m - 1, d + DaysIn(y, m - 1))
    ELSE IF d > DaysIn(y, m) THEN
        IF m = 12 THEN MkDate(y + 1, 1, d - 31)
        ELSE MkDate(y, m + 1, d - DaysIn(y, m))
    ELSE [y |-> y, m |-> m, d |-> d]

\* misc.dateToString: YYYY-MM-DD
dateToString(date) ==
    ToString(date.y) \o "-" \o Pad2(date.m) \o "-" \o Pad2(date.d)

\* DATESTRING_REGEXP = /^\d{4}-(0\d|1[0-2])-([0-2]\d|3[01])$/
DATESTRING_REGEXP(s) ==
    /\ Len(s) = 10
    /\ AllDigits(Sub(s, 1, 4))
    /\ At(s, 5) = "-"
    /\ \/ At(s, 6) = "0" /\ At(s, 7) \in Digits
       \/ At(s, 6) = "1" /\ At(s, 7) \in {"0", "1", "2"}
    /\ At(s, 8) = "-"
    /\ \/ At(s, 9) \in {"0", "1", "2"} /\ At(s, 10) \in Digits
       \/ At(s, 9) = "3" /\ At(s, 10) \in {"0", "1"}

\* misc.stringToDate: the date the calendar library makes of YYYY-MM-DD
stringToDate(s) ==
    MkDate(parseInt(Sub(s, 1, 4)), parseInt(Sub(s, 6, 7)), parseInt(Sub(s, 9, 10)))

-----------------------------------------------------------------------------
\* Recurrence value

\* RECURRENCE_REGEXP = /^([1-7])(d|w|m)$/
RECURRENCE_REGEXP(s) ==
    /\ Len(s) = 2
    /\ At(s, 1) \in {"1", "2", "3", "4", "5", "6", "7"}
    /\ At(s, 2) \in {"d", "w", "m"}

\* new TaskRecurrence(value)
TaskRecurrence(value) ==
    [amount |-> parseInt(At(value, 1)), key |-> At(value, 2)]

\* TaskRecurrence.toString
recToString(rec) == ToString(rec.amount) \o rec.key

\* moment(date).add(amount, 'month'): the day is clamped to the month's length
AddMonths(date, k) ==
    LET first == MkDate(date.y, date.m + k, 1)
        last  == DaysIn(first.y, first.m)
    IN  [y |-> first.y, m |-> first.m, d |-> IF date.d > last THEN last ELSE date.d]

\* TaskRecurrence.addTo
addTo(rec, date) ==
    IF rec.key = "d" THEN MkDate(date.y, date.m, date.d + rec.amount)
    ELSE IF rec.key = "w" THEN MkDate(date.y, date.m, date.d + 7 * rec.amount)
    ELSE AddMonths(date, rec.amount)

-----------------------------------------------------------------------------
\* Extension registry

\* RECURRENCE_TAG_REGEXP = /rec:([1-7](d|w|m))(\s|$)/ matched at position i
RecTagAt(s, i) ==
    /\ Sub(s, i, i + 3) = "rec:"
    /\ RECURRENCE_REGEXP(Sub(s, i + 4, i + 5))
    /\ (i + 5 = Len(s) \/ At(s, i + 6) = " ")

\* RecurrenceExtension.prototype.parsingFunction:
\* [rec, line with the first tag removed, recString], or three nulls
RecurrenceParsingFunction(s) ==
    IF \E i \in 1..Len(s) : RecTagAt(s, i)
    THEN LET i == CHOOSE j \in 1..Len(s) :
                      RecTagAt(s, j) /\ \A h \in 1..(j - 1) : ~RecTagAt(s, h)
             m1 == Sub(s, i + 4, i + 5)
         IN  << Some(TaskRecurrence(m1)),
                Some(Sub(s, 1, i - 1) \o From(s, i + 7)),
                Some(m1) >>
    ELSE << Null, Null, Null >>

\* the date of a due: tag: YYYY-MM-DD with MM in 01..12 and DD in 01..31
IsTagDate(s) ==
    /\ DATESTRING_REGEXP(s)
    /\ parseInt(Sub(s, 6, 7)) >= 1
    /\ parseInt(Sub(s, 9, 10)) >= 1

\* a due:YYYY-MM-DD tag at position i, between whitespace or line boundaries
DueTagAt(s, i) ==
    /\ (i = 1 \/ At(s, i - 1) = " ")
    /\ Sub(s, i, i + 3) = "due:"
    /\ IsTagDate(Sub(s, i + 4, i + 13))
    /\ (i + 13 = Len(s) \/ At(s, i + 14) = " ")

\* DueExtension.prototype.parsingFunction
DueParsingFunction(s) ==
    IF \E i \in 1..Len(s) : DueTagAt(s, i)
    THEN LET i == CHOOSE j \in 1..Len(s) :
                      DueTagAt(s, j) /\ \A h \in 1..(j - 1) : ~DueTagAt(s, h)
             m1 == Sub(s, i + 4, i + 13)
         IN  << Some(stringToDate(m1)),
                Some(Sub(s, 1, i - 1) \o From(s, i + 15)),
                Some(m1) >>
    ELSE << Null, Null, Null >>

-----------------------------------------------------------------------------
\* Line codec (TodoTxtItem of jstodotxt)

Upper == {"A", "B", "C", "D", "E", "F", "G", "H", "I", "J", "K", "L", "M",
          "N", "O", "P", "Q", "R", "S", "T", "U", "V", "W", "X", "Y", "Z"}

\* PRIORITY_REGEXP = /^[A-Z]$/
PRIORITY_REGEXP(s) == s \in Upper

\* PROJECT_REGEXP = /^[^+\s]+$/
PROJECT_REGEXP(s) ==
    Len(s) >= 1 /\ \A i \in 1..Len(s) : At(s, i) \notin {"+", " "}

\* length of the first run of non-space characters of s
RECURSIVE WordLen(_)
WordLen(s) == IF s = "" \/ At(s, 1) = " " THEN 0 ELSE 1 + WordLen(From(s, 2))

\* the whitespace-separated words of s
RECURSIVE Words(_)
Words(s) ==
    LET t == trimLeft(s)
        e == WordLen(t)
    IN  IF t = "" THEN << >> ELSE << Sub(t, 1, e) >> \o Words(From(t, e + 1))

RECURSIVE Join(_, _)
Join(ws, sep) ==
    IF ws = << >> THEN ""
    ELSE IF Len(ws) = 1 THEN ws[1]
    ELSE ws[1] \o sep \o Join(Tail(ws), sep)

IsTag(w, mark) == At(w, 1) = mark /\ Len(w) >= 2
TagValues(ws, mark) ==
    LET sel == SelectSeq(ws, LAMBDA w : IsTag(w, mark))
    IN  IF sel = << >> THEN Null
        ELSE Some([i \in 1..Len(sel) |-> From(sel[i], 2)])

\* TodoTxtItem.reset: the state of an item before a line is parsed into it
ResetItem ==
    [ text |-> "", priority |-> Null, complete |-> FALSE, completed |-> Null,
      date |-> Null, contexts |-> Null, projects |-> Null,
      due |-> Null, dueString |-> Null, rec |-> Null, recString |-> Null ]

\* The stages of parsing work on [item, rest]: the item filled in so far and
\* the part of the line not yet consumed.

\* a leading completion marker and completion date: "x " date " "
StripCompletion(st) ==
    IF /\ Sub(st.rest, 1, 2) = "x "
       /\ IsTagDate(Sub(st.rest, 3, 12))
       /\ At(st.rest, 13) = " "
    THEN [ item |-> [st.item EXCEPT !.complete = TRUE,
                                    !.completed = Some(stringToDate(Sub(st.rest, 3, 12)))],
           rest |-> trimLeft(From(st.rest, 14)) ]
    ELSE st

\* a leading priority marker: "(" UPPER ") "
StripPriority(st) ==
    IF /\ At(st.rest, 1) = "(" /\ At(st.rest, 2) \in Upper
       /\ At(st.rest, 3) = ")" /\ At(st.rest, 4) = " "
    THEN [ item |-> [st.item EXCEPT !.priority = Some(At(st.rest, 2))],
           rest |-> trimLeft(From(st.rest, 5)) ]
    ELSE st

\* a leading creation date: date " "
StripDate(st) ==
    IF IsTagDate(Sub(st.rest, 1, 10)) /\ At(st.rest, 11) = " "
    THEN [ item |-> [st.item EXCEPT !.date = Some(stringToDate(Sub(st.rest, 1, 10)))],
           rest |-> trimLeft(From(st.rest, 12)) ]
    ELSE st

\* the due extractor, applied once to the rest of the line
ApplyDue(st) ==
    LET data == DueParsingFunction(st.rest)
    IN  IF data[1].k = "val"
        THEN [ item |-> [st.item EXCEPT !.due = data[1], !.dueString = data[3]],
               rest |-> data[2].v ]
        ELSE st

\* the recurrence extractor, applied once to what the due extractor left
ApplyRec(st) ==
    LET data == RecurrenceParsingFunction(st.rest)
    IN  IF data[1].k = "val"
        THEN [ item |-> [st.item EXCEPT !.rec = data[1], !.recString = data[3]],
               rest |-> data[2].v ]
        ELSE st

\* +project and @context tokens are collected; the other words are the text
CollectTags(st) ==
    LET ws == Words(st.rest)
    IN  [ st.item EXCEPT
            !.projects = TagValues(ws, "+"),
            !.contexts = TagValues(ws, "@"),
            !.text = Join(SelectSeq(ws, LAMBDA w : ~IsTag(w, "+") /\ ~IsTag(w, "@")), " ") ]

\* new TodoTxtItem(line, getExtensions()): parse a todo.txt line
ParseLine(raw) ==
    CollectTags(ApplyRec(ApplyDue(StripDate(StripPriority(StripCompletion(
        [item |-> ResetItem, rest |-> trim(raw)]))))))

RECURSIVE TagText(_, _)
TagText(names, mark) ==
    IF names = << >> THEN ""
    ELSE " " \o mark \o names[1] \o TagText(Tail(names), mark)

\* TodoTxtItem.toString: render the item as a todo.txt line
ItemToString(item) ==
    (IF item.complete /\ item.completed.k = "val"
        THEN "x " \o dateToString(item.completed.v) \o " " ELSE "")
    \o (IF item.priority.k = "val" THEN "(" \o item.priority.v \o ") " ELSE "")
    \o (IF item.date.k = "val" THEN dateToString(item.date.v) \o " " ELSE "")
    \o item.text
    \o (IF item.projects.k = "val" THEN TagText(item.projects.v, "+") ELSE "")
    \o (IF item.contexts.k = "val" THEN TagText(item.contexts.v, "@") ELSE "")
    \o (IF Truthy(item.due) THEN " due:" \o item.dueString.v ELSE "")
    \o (IF Truthy(item.rec) THEN " rec:" \o item.recString.v ELSE "")

-----------------------------------------------------------------------------
\* Task

\* Task.create
Create(taskData, now) ==
    LET todoItem == ParseLine(taskData.text)
    IN  [ todoItem EXCEPT
            !.date      = Some(now),
            !.projects  = IF taskData.project # "" THEN Some(<< taskData.project >>) ELSE @,
            !.priority  = IF taskData.priority # "" THEN Some(taskData.priority) ELSE @,
            !.due       = IF taskData.dueDate # ""
                          THEN Some(stringToDate(taskData.dueDate)) ELSE @,
            !.dueString = IF taskData.dueDate # "" THEN Some(taskData.dueDate) ELSE @,
            !.rec       = IF taskData.recurrence # ""
                          THEN Some(TaskRecurrence(taskData.recurrence)) ELSE @,
            !.recString = IF taskData.recurrence # "" THEN Some(taskData.recurrence) ELSE @ ]

\* Task.parse
Parse(text) == ParseLine(text)

\* Task.clone
Clone(item) == Parse(ItemToString(item))

\* Task.update with the priority branch's else dropped: an empty priority
\* leaves the old one
UpdateKeepsPriority(item, taskData) ==
    [ item EXCEPT
        !.text      = taskData.text,
        !.projects  = IF taskData.project # "" THEN Some(<< taskData.project >>) ELSE Null,
        !.priority  = IF taskData.priority # "" THEN Some(taskData.priority) ELSE @,
        !.due       = IF taskData.dueDate # ""
                      THEN Some(stringToDate(taskData.dueDate)) ELSE Undefined,
        !.dueString = IF taskData.dueDate # "" THEN Some(taskData.dueDate) ELSE Undefined,
        !.rec       = IF taskData.recurrence # ""
                      THEN Some(TaskRecurrence(taskData.recurrence)) ELSE Undefined,
        !.recString = IF taskData.recurrence # "" THEN Some(taskData.recurrence) ELSE Undefined ]

\* Task.update
Update(item, taskData) ==
    [ item EXCEPT
        !.text      = taskData.text,
        !.projects  = IF taskData.project # "" THEN Some(<< taskData.project >>) ELSE Null,
        !.priority  = IF taskData.priority # "" THEN Some(taskData.priority) ELSE Null,
        !.due       = IF taskData.dueDate # ""
                      THEN Some(stringToDate(taskData.dueDate)) ELSE Undefined,
        !.dueString = IF taskData.dueDate # "" THEN Some(taskData.dueDate) ELSE Undefined,
        !.rec       = IF taskData.recurrence # ""
                      THEN Some(TaskRecurrence(taskData.recurrence)) ELSE Undefined,
        !.recString = IF taskData.recurrence # "" THEN Some(taskData.recurrence) ELSE Undefined ]

\* Task.toTaskData
ToTaskData(item) ==
    [ text       |-> Some(item.text),
      project    |-> IF Truthy(item.projects) /\ Len(item.projects.v) > 0
                     THEN Some(item.projects.v[1]) ELSE Some(""),
      priority   |-> item.priority,
      dueDate    |-> IF Truthy(item.due) THEN Some(dateToString(item.due.v)) ELSE Some(""),
      recurrence |-> IF Truthy(item.rec) THEN Some(recToString(item.rec.v)) ELSE Some("") ]

\* Task.toggleComplete that forgets to clear the completed date
ToggleCompleteKeepsDate(item, now) ==
    IF ~item.complete
    THEN [item EXCEPT !.complete = TRUE, !.completed = Some(now)]
    ELSE [item EXCEPT !.complete = FALSE]

\* Task.toggleComplete whose test is lost: it always marks the task complete
ToggleCompleteOneWay(item, now) ==
    [item EXCEPT !.complete = TRUE, !.completed = Some(now)]

\* Task.toggleComplete
ToggleComplete(item, now) ==
    IF ~item.complete
    THEN [item EXCEPT !.complete = TRUE, !.completed = Some(now)]
    ELSE [item EXCEPT !.complete = FALSE, !.completed = Null]

\* Task.postpone without its early return: it reports success with no due date
PostponeUnguarded(item) ==
    IF ~Truthy(item.due)
    THEN [ item |-> [item EXCEPT !.dueString = Some("")], ret |-> TRUE ]
    ELSE LET d == item.due.v
             newDueDate == MkDate(d.y, d.m, d.d + 1)
         IN  [ item |-> [item EXCEPT !.due = Some(newDueDate),
                                     !.dueString = Some(dateToString(newDueDate))],
               ret  |-> TRUE ]

\* Task.postpone that adds one to the day of the month and carries nothing
PostponeNoCarry(item) ==
    IF ~Truthy(item.due) THEN [item |-> item, ret |-> FALSE]
    ELSE LET d == item.due.v
             newDueDate == [d EXCEPT !.d = @ + 1]
         IN  [ item |-> [item EXCEPT !.due = Some(newDueDate),
                                     !.dueString = Some(dateToString(newDueDate))],
               ret  |-> TRUE ]

\* Task.postpone: the item afterwards and the value returned
Postpone(item) ==
    IF ~Truthy(item.due) THEN [item |-> item, ret |-> FALSE]
    ELSE LET d == item.due.v
             newDueDate == MkDate(d.y, d.m, d.d + 1)
         IN  [ item |-> [item EXCEPT !.due = Some(newDueDate),
                                     !.dueString = Some(dateToString(newDueDate))],
               ret  |-> TRUE ]

\* Task.recur: the receiver afterwards and the Task returned (Undefined if none)
Recur(item) ==
    IF Truthy(item.due) /\ Truthy(item.rec)
    THEN LET newDueDate == addTo(item.rec.v, item.due.v)
             newTask == Clone(item)
         IN  [ item |-> item,
               ret  |-> Some([newTask EXCEPT !.due = Some(newDueDate),
                                             !.dueString = Some(dateToString(newDueDate))]) ]
    ELSE [item |-> item, ret |-> Undefined]

-----------------------------------------------------------------------------
\* Inputs

Texts       == {"a", "a rec:1d"}
Projects    == {"", "p"}
Priorities  == {"", "A"}
DueDates    == {"", "2024-01-31", "2023-12-31", "2024-02-30"}
Recurrences == {"", "1m"}

\* the TaskData the form lets through (TaskFormComponent.ngOnInit validators)
ValidTaskData(d) ==
    /\ d.text # ""
    /\ d.project = "" \/ PROJECT_REGEXP(d.project)
    /\ d.priority = "" \/ PRIORITY_REGEXP(d.priority)
    /\ d.dueDate = "" \/ DATESTRING_REGEXP(d.dueDate)
    /\ d.recurrence = "" \/ RECURRENCE_REGEXP(d.recurrence)

Data ==
    { d \in [ text : Texts, project : Projects, priority : Priorities,
              dueDate : DueDates, recurrence : Recurrences ] : ValidTaskData(d) }

\* lines of a todo.txt file
FileLines ==
    { "a",
      "x a",
      "(B) a @c",
      "x 2024-01-10 (A) 2024-01-09 a +p due:2024-01-31 rec:1m",
      "a due:2024-02-28 rec:1d rec:2w",
      "a due:2024-02-30 rec:2w" }

\* the day new Date() falls on
Clock == { [y |-> 2024, m |-> 1, d |-> 15] }

\* days from 0001-01-01 to the date (the measure the properties use)
RECURSIVE DaysBeforeMonth(_, _)
DaysBeforeMonth(y, m) ==
    IF m <= 1 THEN 0 ELSE DaysBeforeMonth(y, m - 1) + DaysIn(y, m - 1)
DayNum(date) ==
    LET p == date.y - 1
    IN  365 * p + (p \div 4) - (p \div 100) + (p \div 400)
        + DaysBeforeMonth(date.y, date.m) + date.d

\* postpone() is followed while due lies in a window after one of these dates
WindowStarts == {"2023-12-31", "2024-01-31", "2024-02-28"}
InWindow(due) ==
    \E s \in WindowStarts :
        LET k == DayNum(due) - DayNum(stringToDate(s))
        IN  k >= 0 /\ k < MaxShift

\* the extractor harness's lines: up to MaxPieces pieces, concatenated
Pieces == {"rec:1d", "rec:", "2w", " ", "a"}
RECURSIVE LinesOf(_)
LinesOf(k) ==
    IF k = 0 THEN {""}
    ELSE LET shorter == LinesOf(k - 1)
         IN  shorter \cup { l \o p : l \in shorter, p \in Pieces }

NoMatch == << Null, Null, Null >>

-----------------------------------------------------------------------------
\* The state machine

NothingHeld == [projects |-> FALSE, priority |-> FALSE, due |-> FALSE, rec |-> FALSE]
Held(item) ==
    [ projects |-> Truthy(item.projects), priority |-> Truthy(item.priority),
      due |-> Truthy(item.due), rec |-> Truthy(item.rec) ]

Init ==
    /\ born = "none"
    /\ was = NothingHeld
    /\ task = Undefined
    /\ result = Undefined
    /\ op = "none"
    /\ ret = Undefined
    /\ arg = Undefined
    /\ base = Undefined
    /\ n = 0
    /\ line = ""
    /\ out = [calls |-> 0, val |-> NoMatch]

Harness == <<line, out>>

\* bookkeeping of a call `name` that changes the receiver in part
Run(name) ==
    /\ task.k = "val"
    /\ op = name => n < MaxRun
    /\ op' = name
    /\ n' = IF op = name THEN n + 1 ELSE 1
    /\ base' = IF op = name THEN base ELSE task
    /\ arg' = Undefined
    /\ was' = NothingHeld
    /\ UNCHANGED born

\* bookkeeping of a call `name` that is to leave the receiver as it is
Call(name) ==
    /\ task.k = "val"
    /\ op' = name
    /\ n' = 1
    /\ base' = task
    /\ arg' = Undefined
    /\ was' = NothingHeld
    /\ UNCHANGED born

\* Task.create(taskData)
DoCreate(taskData, now) ==
    /\ task.k = "undefined"
    /\ task' = Some(Create(taskData, now))
    /\ op' = "create" /\ arg' = Some(taskData) /\ ret' = task'
    /\ born' = "create" /\ was' = NothingHeld
    /\ base' = task' /\ n' = 1
    /\ result' = Undefined
    /\ UNCHANGED Harness

\* Task.parse(text)
DoParse(text) ==
    /\ task.k = "undefined"
    /\ task' = Some(Parse(text))
    /\ op' = "parse" /\ arg' = Some(text) /\ ret' = task'
    /\ born' = "parse" /\ was' = NothingHeld
    /\ base' = task' /\ n' = 1
    /\ result' = Undefined
    /\ UNCHANGED Harness

\* task.update(taskData)
DoUpdate(taskData) ==
    /\ task.k = "val"
    /\ task' = Some(Update(task.v, taskData))
    /\ op' = "update" /\ arg' = Some(taskData) /\ ret' = Undefined
    /\ was' = Held(task.v) /\ UNCHANGED born
    /\ base' = task' /\ n' = 1
    /\ result' = Undefined
    /\ UNCHANGED Harness

\* task.toTaskData()
DoToTaskData ==
    /\ Call("toTaskData")
    /\ ret' = Some(ToTaskData(task.v))
    /\ result' = Undefined
    /\ UNCHANGED <<task, Harness>>

\* task.toggleComplete()
DoToggleComplete(now) ==
    /\ Run("toggleComplete")
    /\ task' = Some(ToggleComplete(task.v, now))
    /\ ret' = Undefined
    /\ result' = Undefined
    /\ UNCHANGED Harness

\* task.postpone()
DoPostpone ==
    /\ Run("postpone")
    /\ Truthy(task.v.due) => InWindow(task.v.due.v)
    /\ LET r == Postpone(task.v)
       IN  task' = Some(r.item) /\ ret' = Some(r.ret)
    /\ result' = Undefined
    /\ UNCHANGED Harness

\* task.recur()
DoRecur ==
    /\ Call("recur")
    /\ LET r == Recur(task.v)
       IN  task' = Some(r.item) /\ ret' = r.ret /\ result' = r.ret
    /\ UNCHANGED Harness

\* task.clone()
DoClone ==
    /\ Call("clone")
    /\ result' = Some(Clone(task.v))
    /\ ret' = result'
    /\ UNCHANGED <<task, Harness>>

\* the caller goes on to change the Task that clone()/recur() returned
ResultToggleComplete(now) ==
    /\ result.k = "val"
    /\ result' = Some(ToggleComplete(result.v, now))
    /\ UNCHANGED <<task, op, ret, arg, base, n, born, was, Harness>>

ResultPostpone ==
    /\ result.k = "val"
    /\ Truthy(result.v.due) /\ InWindow(result.v.due.v)
    /\ result' = Some(Postpone(result.v).item)
    /\ UNCHANGED <<task, op, ret, arg, base, n, born, was, Harness>>

Next ==
    \/ \E d \in Data, now \in Clock : DoCreate(d, now)
    \/ \E l \in FileLines : DoParse(l)
    \/ \E d \in Data : DoUpdate(d)
    \/ DoToTaskData
    \/ \E now \in Clock : DoToggleComplete(now)
    \/ DoPostpone
    \/ DoRecur
    \/ DoClone
    \/ \E now \in Clock : ResultToggleComplete(now)
    \/ ResultPostpone

Spec == Init /\ [][Next]_vars

-----------------------------------------------------------------------------
\* The recurrence extractor on its own: a line in, the extractor applied to it
\* and then to the residual line it returned

TaskVars == <<task, result, op, ret, arg, base, n, born, was>>

InitExtract ==
    /\ task = Undefined /\ result = Undefined /\ op = "none" /\ ret = Undefined
    /\ arg = Undefined /\ base = Undefined /\ n = 0
    /\ born = "none" /\ was = NothingHeld
    /\ line \in LinesOf(MaxPieces)
    /\ out = [calls |-> 0, val |-> NoMatch]

\* RecurrenceExtension.parsingFunction(line)
Extract ==
    /\ out.calls = 0
    /\ out' = [calls |-> 1, val |-> RecurrenceParsingFunction(line)]
    /\ UNCHANGED <<line, TaskVars>>

\* RecurrenceExtension.parsingFunction(residual line of the previous call)
ExtractResidual ==
    /\ out.calls = 1
    /\ out.val[2].k = "val"
    /\ line' = out.val[2].v
    /\ out' = [calls |-> 2, val |-> RecurrenceParsingFunction(line')]
    /\ UNCHANGED TaskVars

NextExtract == Extract \/ ExtractResidual

SpecExtract == InitExtract /\ [][NextExtract]_vars

-----------------------------------------------------------------------------
\* Properties

\* two optional values agree: both absent, or both present with the same value
Same(a, b) == Truthy(a) = Truthy(b) /\ (Truthy(a) => a.v = b.v)

Tasks == { t \in {task, result} : t.k = "val" }

\* C1: in every Task the program can reach, the completed date is present
\* exactly when complete is true.
C1_CompletedIffComplete ==
    \A t \in Tasks : Truthy(t.v.completed) <=> t.v.complete

\* C1 witness: a task parsed as complete, toggled off and on again.
C1_Witness ==
    /\ op = "toggleComplete" /\ n = 2 /\ born = "parse"
    /\ task.v.complete /\ Truthy(task.v.completed)

\* the fields the round-trip law compares
SameTask(a, b) ==
    /\ a.text = b.text
    /\ Same(a.projects, b.projects)
    /\ Same(a.priority, b.priority)
    /\ Same(a.due, b.due)
    /\ Same(a.rec, b.rec)
    /\ a.complete = b.complete
    /\ Truthy(a.completed) = Truthy(b.completed)

\* C2: clone() of a Task made by create and changed by update, toggleComplete
\* and postpone returns a Task with the same text, projects, priority, due,
\* recurrence, complete and completed-date presence.
C2_RoundTrip ==
    (born = "create" /\ op = "clone") => SameTask(ret.v, task.v)

\* C3: after update(data), text is data.text, and each of project, priority,
\* due and recurrence is absent when its string in data is empty and holds the
\* value made from that string otherwise.
C3_UpdateOverwrites ==
    op = "update" =>
        LET d == arg.v  t == task.v
        IN  /\ t.text = d.text
            /\ IF d.project = "" THEN ~Truthy(t.projects)
               ELSE t.projects = Some(<< d.project >>)
            /\ IF d.priority = "" THEN ~Truthy(t.priority)
               ELSE t.priority = Some(d.priority)
            /\ IF d.dueDate = "" THEN ~Truthy(t.due) /\ ~Truthy(t.dueString)
               ELSE /\ Truthy(t.due)
                    /\ dateToString(t.due.v) = dateToString(stringToDate(d.dueDate))
                    /\ t.dueString = Some(d.dueDate)
            /\ IF d.recurrence = "" THEN ~Truthy(t.rec) /\ ~Truthy(t.recString)
               ELSE /\ Truthy(t.rec)
                    /\ recToString(t.rec.v) = d.recurrence
                    /\ t.recString = Some(d.recurrence)

\* C3 witness: an update with every optional string empty, on a task that
\* held all four fields, has cleared them.
C3_Witness ==
    /\ op = "update"
    /\ was = [projects |-> TRUE, priority |-> TRUE, due |-> TRUE, rec |-> TRUE]
    /\ arg.v.project = "" /\ arg.v.priority = ""
    /\ arg.v.dueDate = "" /\ arg.v.recurrence = ""
    /\ ~Truthy(task.v.projects) /\ ~Truthy(task.v.priority)
    /\ ~Truthy(task.v.due) /\ ~Truthy(task.v.rec)

\* C4: toTaskData() returns project, priority, dueDate and recurrence as
\* strings, each the empty string exactly when the field is unset.
C4_UnsetAsEmptyString ==
    op = "toTaskData" =>
        LET d == ret.v  t == task.v
        IN  /\ d.project.k = "val" /\ (d.project.v = "" <=> ~Truthy(t.projects))
            /\ d.priority.k = "val" /\ (d.priority.v = "" <=> ~Truthy(t.priority))
            /\ d.dueDate.k = "val" /\ (d.dueDate.v = "" <=> ~Truthy(t.due))
            /\ d.recurrence.k = "val" /\ (d.recurrence.v = "" <=> ~Truthy(t.rec))

\* C5: create(data) sets the creation date, and leaves each of project,
\* priority, due and recurrence absent when its string in data is empty and
\* mapped from that string otherwise, whatever data.text is.
C5_CreateMapsFields ==
    op = "create" =>
        LET d == arg.v  t == task.v
        IN  /\ Truthy(t.date)
            /\ IF d.project = "" THEN ~Truthy(t.projects)
               ELSE t.projects = Some(<< d.project >>)
            /\ IF d.priority = "" THEN ~Truthy(t.priority)
               ELSE t.priority = Some(d.priority)
            /\ IF d.dueDate = "" THEN ~Truthy(t.due)
               ELSE Truthy(t.due) /\ t.dueString = Some(d.dueDate)
            /\ IF d.recurrence = "" THEN ~Truthy(t.rec)
               ELSE Truthy(t.rec) /\ recToString(t.rec.v) = d.recurrence

\* C6: postpone() on a task with no due date returns false, recur() on a task
\* without a due date or without a recurrence returns no task, and in both
\* cases the receiver is as it was before the call.
C6_NoOpsLeaveTask ==
    /\ (op = "postpone" /\ ~Truthy(base.v.due)) =>
           ret = Some(FALSE) /\ task = base
    /\ (op = "recur" /\ (~Truthy(base.v.due) \/ ~Truthy(base.v.rec))) =>
           ret.k = "undefined" /\ result.k = "undefined" /\ task = base

\* C6 witness: postpone() has returned false on a task that has a recurrence
\* and no due date.
C6_Witness ==
    /\ op = "postpone" /\ ret = Some(FALSE)
    /\ Truthy(task.v.rec) /\ ~Truthy(task.v.due)

ValidDate(date) ==
    date.m >= 1 /\ date.m <= 12 /\ date.d >= 1 /\ date.d <= DaysIn(date.y, date.m)

\* C7: after n successive postpone() calls on a task with a due date, each has
\* returned true, due is a calendar date exactly n days after the original,
\* the due string is that date rendered, and no other field has changed.
C7_PostponeAdvances ==
    (op = "postpone" /\ Truthy(base.v.due)) =>
        /\ ret = Some(TRUE)
        /\ Truthy(task.v.due) /\ ValidDate(task.v.due.v)
        /\ DayNum(task.v.due.v) = DayNum(base.v.due.v) + n
        /\ Truthy(task.v.dueString)
        /\ DATESTRING_REGEXP(task.v.dueString.v)
        /\ stringToDate(task.v.dueString.v) = task.v.due.v
        /\ [task.v EXCEPT !.due = base.v.due, !.dueString = base.v.dueString] = base.v

\* C7 witness: one postpone() has taken due from 2024-01-31 to 2024-02-01.
C7_Witness ==
    /\ op = "postpone" /\ n = 1
    /\ base.v.due = Some([y |-> 2024, m |-> 1, d |-> 31])
    /\ task.v.due = Some([y |-> 2024, m |-> 2, d |-> 1])
    /\ task.v.dueString = Some("2024-02-01")

\* C8: recur() on a task with due and recurrence returns a Task whose due is
\* recurrence.addTo(due) and whose other fields equal the receiver's, and the
\* receiver is as it was before the call.
C8_RecurCopies ==
    (op = "recur" /\ Truthy(base.v.due) /\ Truthy(base.v.rec)) =>
        /\ ret.k = "val"
        /\ ret.v.due = Some(addTo(base.v.rec.v, base.v.due.v))
        /\ ret.v.text = base.v.text
        /\ Same(ret.v.projects, base.v.projects)
        /\ Same(ret.v.contexts, base.v.contexts)
        /\ Same(ret.v.priority, base.v.priority)
        /\ Same(ret.v.rec, base.v.rec)
        /\ Same(ret.v.date, base.v.date)
        /\ ret.v.complete = base.v.complete
        /\ Same(ret.v.completed, base.v.completed)
        /\ task = base

\* C9: after n successive toggleComplete() calls, complete and the presence of
\* the completed date are the original ones when n is even and the opposite
\* ones when n is odd, the completed date is present exactly when complete is
\* true, and no other field has changed.
C9_ToggleTwice ==
    op = "toggleComplete" =>
        /\ task.v.complete = (IF n % 2 = 0 THEN base.v.complete ELSE ~base.v.complete)
        /\ Truthy(task.v.completed) =
               (IF n % 2 = 0 THEN Truthy(base.v.completed) ELSE ~Truthy(base.v.completed))
        /\ Truthy(task.v.completed) = task.v.complete
        /\ [task.v EXCEPT !.complete = base.v.complete,
                          !.completed = base.v.completed] = base.v

\* C9 witness: an incomplete task toggled twice is incomplete again, with no
\* completed date.
C9_Witness ==
    /\ op = "toggleComplete" /\ n = 2
    /\ ~base.v.complete /\ ~task.v.complete /\ ~Truthy(task.v.completed)

\* C10: the recurrence extractor applied to the residual line of a match finds
\* no further match, and an extractor that finds no match returns three
\* absent values.
C10_ExtractorIdempotent ==
    /\ out.calls = 2 => out.val = NoMatch
    /\ (out.calls >= 1 /\ ~Truthy(out.val[1])) => out.val = NoMatch

\* the year, month and day a YYYY-MM-DD string names, digit for digit
DenotedDate(s) ==
    [ y |-> parseInt(Sub(s, 1, 4)), m |-> parseInt(Sub(s, 6, 7)),
      d |-> parseInt(Sub(s, 9, 10)) ]

\* C11: in every Task reached by create, update, postpone and recur from
\* TaskData whose dueDate matches DATESTRING_REGEXP, the due string is present
\* exactly when due is, and names the calendar date that due holds.
C11_DueStringDenotesDue ==
    born = "create" =>
        \A t \in Tasks :
            /\ Truthy(t.v.due) = Truthy(t.v.dueString)
            /\ Truthy(t.v.due) =>
                   /\ DATESTRING_REGEXP(t.v.dueString.v)
                   /\ DenotedDate(t.v.dueString.v) = t.v.due.v

====
